---- MODULE Spec2Model ----
(***************************************************************************)
(* Model of the UMKM & Attendance API (src/main.py).                       *)
(*                                                                         *)
(* Strings are sequences of code points, so that strip(), lower() and the  *)
(* lexicographic comparison used by list.sort() are computed as Python     *)
(* computes them.  An optional value (a dict .get() that may return None,  *)
(* an Optional field) is the empty tuple for None and a one-element tuple  *)
(* for a present value.                                                    *)
(***************************************************************************)
EXTENDS Integers, Sequences, FiniteSets, TLC

\* Bound: how many documents the storage generates identifiers for.
MaxDocs == 2

VARIABLES
    db,           \* database.db: "null" (None), or a handle to a storage that is
                  \* "up" or "down" (every call on it raises); fixed at start-up
    attendance,   \* the "attendance" collection, in insertion order
    umkm,         \* the "umkm" collection, in insertion order
    nextId,       \* the identifier the storage generates next
    clock,        \* the last value read from the server clock
    req,          \* the request being answered
    resp,         \* the response to req
    responses     \* the successful create responses handed out so far

vars == <<db, attendance, umkm, nextId, clock, req, resp, responses>>

----------------------------------------------------------------------------
\* Python values

None == <<>>
Some(x) == <<x>>

\* Python truthiness of an Optional[str]: None and "" are falsy.
Truthy(o) == o # None /\ o[1] # <<>>

\* str.isspace() on one code point: what strip() removes.
IsSpace(c) ==
    c \in {9, 10, 11, 12, 13, 28, 29, 30, 31, 32, 133, 160, 5760,
           8232, 8233, 8239, 8287, 12288} \cup (8192..8202)

RECURSIVE LStrip(_)
LStrip(s) ==
    IF s = <<>> THEN <<>>
    ELSE IF IsSpace(Head(s)) THEN LStrip(Tail(s)) ELSE s

RECURSIVE RStrip(_)
RStrip(s) ==
    IF s = <<>> THEN <<>>
    ELSE IF IsSpace(s[Len(s)]) THEN RStrip(SubSeq(s, 1, Len(s) - 1)) ELSE s

\* str.strip()
Strip(s) == RStrip(LStrip(s))

\* str.lower() of single code points from 128 on (Unicode 14): every code
\* point lo, lo + step, ..., hi is lowered to itself plus delta.
\* <<lo, hi, step, delta>>
LowerRuns ==
    { <<192, 214, 1, 32>>, <<216, 222, 1, 32>>, <<256, 302, 2, 1>>,
      <<306, 310, 2, 1>>, <<313, 327, 2, 1>>, <<330, 374, 2, 1>>,
      <<376, 376, 1, -121>>, <<377, 381, 2, 1>>, <<385, 385, 1, 210>>,
      <<386, 388, 2, 1>>, <<390, 390, 1, 206>>, <<391, 391, 1, 1>>,
      <<393, 394, 1, 205>>, <<395, 395, 1, 1>>, <<398, 398, 1, 79>>,
      <<399, 399, 1, 202>>, <<400, 400, 1, 203>>, <<401, 401, 1, 1>>,
      <<403, 403, 1, 205>>, <<404, 404, 1, 207>>, <<406, 406, 1, 211>>,
      <<407, 407, 1, 209>>, <<408, 408, 1, 1>>, <<412, 412, 1, 211>>,
      <<413, 413, 1, 213>>, <<415, 415, 1, 214>>, <<416, 420, 2, 1>>,
      <<422, 422, 1, 218>>, <<423, 423, 1, 1>>, <<425, 425, 1, 218>>,
      <<428, 428, 1, 1>>, <<430, 430, 1, 218>>, <<431, 431, 1, 1>>,
      <<433, 434, 1, 217>>, <<435, 437, 2, 1>>, <<439, 439, 1, 219>>,
      <<440, 440, 1, 1>>, <<444, 444, 1, 1>>, <<452, 452, 1, 2>>,
      <<453, 453, 1, 1>>, <<455, 455, 1, 2>>, <<456, 456, 1, 1>>,
      <<458, 458, 1, 2>>, <<459, 475, 2, 1>>, <<478, 494, 2, 1>>,
      <<497, 497, 1, 2>>, <<498, 500, 2, 1>>, <<502, 502, 1, -97>>,
      <<503, 503, 1, -56>>, <<504, 542, 2, 1>>, <<544, 544, 1, -130>>,
      <<546, 562, 2, 1>>, <<570, 570, 1, 10795>>, <<571, 571, 1, 1>>,
      <<573, 573, 1, -163>>, <<574, 574, 1, 10792>>, <<577, 577, 1, 1>>,
      <<579, 579, 1, -195>>, <<580, 580, 1, 69>>, <<581, 581, 1, 71>>,
      <<582, 590, 2, 1>>, <<880, 882, 2, 1>>, <<886, 886, 1, 1>>,
      <<895, 895, 1, 116>>, <<902, 902, 1, 38>>, <<904, 906, 1, 37>>,
      <<908, 908, 1, 64>>, <<910, 911, 1, 63>>, <<913, 929, 1, 32>>,
      <<932, 939, 1, 32>>, <<975, 975, 1, 8>>, <<984, 1006, 2, 1>>,
      <<1012, 1012, 1, -60>>, <<1015, 1015, 1, 1>>, <<1017, 1017, 1, -7>>,
      <<1018, 1018, 1, 1>>, <<1021, 1023, 1, -130>>, <<1024, 1039, 1, 80>>,
      <<1040, 1071, 1, 32>>, <<1120, 1152, 2, 1>>, <<1162, 1214, 2, 1>>,
      <<1216, 1216, 1, 15>>, <<1217, 1229, 2, 1>>, <<1232, 1326, 2, 1>>,
      <<1329, 1366, 1, 48>>, <<4256, 4293, 1, 7264>>,
      <<4295, 4295, 1, 7264>>, <<4301, 4301, 1, 7264>>,
      <<5024, 5103, 1, 38864>>, <<5104, 5109, 1, 8>>,
      <<7312, 7354, 1, -3008>>, <<7357, 7359, 1, -3008>>,
      <<7680, 7828, 2, 1>>, <<7838, 7838, 1, -7615>>, <<7840, 7934, 2, 1>>,
      <<7944, 7951, 1, -8>>, <<7960, 7965, 1, -8>>, <<7976, 7983, 1, -8>>,
      <<7992, 7999, 1, -8>>, <<8008, 8013, 1, -8>>, <<8025, 8031, 2, -8>>,
      <<8040, 8047, 1, -8>>, <<8072, 8079, 1, -8>>, <<8088, 8095, 1, -8>>,
      <<8104, 8111, 1, -8>>, <<8120, 8121, 1, -8>>, <<8122, 8123, 1, -74>>,
      <<8124, 8124, 1, -9>>, <<8136, 8139, 1, -86>>, <<8140, 8140, 1, -9>>,
      <<8152, 8153, 1, -8>>, <<8154, 8155, 1, -100>>, <<8168, 8169, 1, -8>>,
      <<8170, 8171, 1, -112>>, <<8172, 8172, 1, -7>>,
      <<8184, 8185, 1, -128>>, <<8186, 8187, 1, -126>>,
      <<8188, 8188, 1, -9>>, <<8486, 8486, 1, -7517>>,
      <<8490, 8490, 1, -8383>>, <<8491, 8491, 1, -8262>>,
      <<8498, 8498, 1, 28>>, <<8544, 8559, 1, 16>>, <<8579, 8579, 1, 1>>,
      <<9398, 9423, 1, 26>>, <<11264, 11311, 1, 48>>, <<11360, 11360, 1, 1>>,
      <<11362, 11362, 1, -10743>>, <<11363, 11363, 1, -3814>>,
      <<11364, 11364, 1, -10727>>, <<11367, 11371, 2, 1>>,
      <<11373, 11373, 1, -10780>>, <<11374, 11374, 1, -10749>>,
      <<11375, 11375, 1, -10783>>, <<11376, 11376, 1, -10782>>,
      <<11378, 11378, 1, 1>>, <<11381, 11381, 1, 1>>,
      <<11390, 11391, 1, -10815>>, <<11392, 11490, 2, 1>>,
      <<11499, 11501, 2, 1>>, <<11506, 11506, 1, 1>>, <<42560, 42604, 2, 1>>,
      <<42624, 42650, 2, 1>>, <<42786, 42798, 2, 1>>, <<42802, 42862, 2, 1>>,
      <<42873, 42875, 2, 1>>, <<42877, 42877, 1, -35332>>,
      <<42878, 42886, 2, 1>>, <<42891, 42891, 1, 1>>,
      <<42893, 42893, 1, -42280>>, <<42896, 42898, 2, 1>>,
      <<42902, 42920, 2, 1>>, <<42922, 42922, 1, -42308>>,
      <<42923, 42923, 1, -42319>>, <<42924, 42924, 1, -42315>>,
      <<42925, 42925, 1, -42305>>, <<42926, 42926, 1, -42308>>,
      <<42928, 42928, 1, -42258>>, <<42929, 42929, 1, -42282>>,
      <<42930, 42930, 1, -42261>>, <<42931, 42931, 1, 928>>,
      <<42932, 42946, 2, 1>>, <<42948, 42948, 1, -48>>,
      <<42949, 42949, 1, -42307>>, <<42950, 42950, 1, -35384>>,
      <<42951, 42953, 2, 1>>, <<42960, 42960, 1, 1>>, <<42966, 42968, 2, 1>>,
      <<42997, 42997, 1, 1>>, <<65313, 65338, 1, 32>>,
      <<66560, 66599, 1, 40>>, <<66736, 66771, 1, 40>>,
      <<66928, 66938, 1, 39>>, <<66940, 66954, 1, 39>>,
      <<66956, 66962, 1, 39>>, <<66964, 66965, 1, 39>>,
      <<68736, 68786, 1, 64>>, <<71840, 71871, 1, 32>>,
      <<93760, 93791, 1, 32>>, <<125184, 125217, 1, 34>> }

\* The case-ignorable code points, <<lo, hi>>: skipped on both sides of a
\* capital sigma when str.lower() decides whether it ends a word.
CaseIgnorableRuns ==
    { <<39, 39>>, <<46, 46>>, <<58, 58>>, <<94, 94>>, <<96, 96>>, <<168, 168>>,
      <<173, 173>>, <<175, 175>>, <<180, 180>>, <<183, 184>>, <<688, 879>>,
      <<884, 885>>, <<890, 890>>, <<900, 901>>, <<903, 903>>, <<1155, 1161>>,
      <<1369, 1369>>, <<1375, 1375>>, <<1425, 1469>>, <<1471, 1471>>,
      <<1473, 1474>>, <<1476, 1477>>, <<1479, 1479>>, <<1524, 1524>>,
      <<1536, 1541>>, <<1552, 1562>>, <<1564, 1564>>, <<1600, 1600>>,
      <<1611, 1631>>, <<1648, 1648>>, <<1750, 1757>>, <<1759, 1768>>,
      <<1770, 1773>>, <<1807, 1807>>, <<1809, 1809>>, <<1840, 1866>>,
      <<1958, 1968>>, <<2027, 2037>>, <<2042, 2042>>, <<2045, 2045>>,
      <<2070, 2093>>, <<2137, 2139>>, <<2184, 2184>>, <<2192, 2193>>,
      <<2200, 2207>>, <<2249, 2306>>, <<2362, 2362>>, <<2364, 2364>>,
      <<2369, 2376>>, <<2381, 2381>>, <<2385, 2391>>, <<2402, 2403>>,
      <<2417, 2417>>, <<2433, 2433>>, <<2492, 2492>>, <<2497, 2500>>,
      <<2509, 2509>>, <<2530, 2531>>, <<2558, 2558>>, <<2561, 2562>>,
      <<2620, 2620>>, <<2625, 2626>>, <<2631, 2632>>, <<2635, 2637>>,
      <<2641, 2641>>, <<2672, 2673>>, <<2677, 2677>>, <<2689, 2690>>,
      <<2748, 2748>>, <<2753, 2757>>, <<2759, 2760>>, <<2765, 2765>>,
      <<2786, 2787>>, <<2810, 2815>>, <<2817, 2817>>, <<2876, 2876>>,
      <<2879, 2879>>, <<2881, 2884>>, <<2893, 2893>>, <<2901, 2902>>,
      <<2914, 2915>>, <<2946, 2946>>, <<3008, 3008>>, <<3021, 3021>>,
      <<3072, 3072>>, <<3076, 3076>>, <<3132, 3132>>, <<3134, 3136>>,
      <<3142, 3144>>, <<3146, 3149>>, <<3157, 3158>>, <<3170, 3171>>,
      <<3201, 3201>>, <<3260, 3260>>, <<3263, 3263>>, <<3270, 3270>>,
      <<3276, 3277>>, <<3298, 3299>>, <<3328, 3329>>, <<3387, 3388>>,
      <<3393, 3396>>, <<3405, 3405>>, <<3426, 3427>>, <<3457, 3457>>,
      <<3530, 3530>>, <<3538, 3540>>, <<3542, 3542>>, <<3633, 3633>>,
      <<3636, 3642>>, <<3654, 3662>>, <<3761, 3761>>, <<3764, 3772>>,
      <<3782, 3782>>, <<3784, 3789>>, <<3864, 3865>>, <<3893, 3893>>,
      <<3895, 3895>>, <<3897, 3897>>, <<3953, 3966>>, <<3968, 3972>>,
      <<3974, 3975>>, <<3981, 3991>>, <<3993, 4028>>, <<4038, 4038>>,
      <<4141, 4144>>, <<4146, 4151>>, <<4153, 4154>>, <<4157, 4158>>,
      <<4184, 4185>>, <<4190, 4192>>, <<4209, 4212>>, <<4226, 4226>>,
      <<4229, 4230>>, <<4237, 4237>>, <<4253, 4253>>, <<4348, 4348>>,
      <<4957, 4959>>, <<5906, 5908>>, <<5938, 5939>>, <<5970, 5971>>,
      <<6002, 6003>>, <<6068, 6069>>, <<6071, 6077>>, <<6086, 6086>>,
      <<6089, 6099>>, <<6103, 6103>>, <<6109, 6109>>, <<6155, 6159>>,
      <<6211, 6211>>, <<6277, 6278>>, <<6313, 6313>>, <<6432, 6434>>,
      <<6439, 6440>>, <<6450, 6450>>, <<6457, 6459>>, <<6679, 6680>>,
      <<6683, 6683>>, <<6742, 6742>>, <<6744, 6750>>, <<6752, 6752>>,
      <<6754, 6754>>, <<6757, 6764>>, <<6771, 6780>>, <<6783, 6783>>,
      <<6823, 6823>>, <<6832, 6862>>, <<6912, 6915>>, <<6964, 6964>>,
      <<6966, 6970>>, <<6972, 6972>>, <<6978, 6978>>, <<7019, 7027>>,
      <<7040, 7041>>, <<7074, 7077>>, <<7080, 7081>>, <<7083, 7085>>,
      <<7142, 7142>>, <<7144, 7145>>, <<7149, 7149>>, <<7151, 7153>>,
      <<7212, 7219>>, <<7222, 7223>>, <<7288, 7293>>, <<7376, 7378>>,
      <<7380, 7392>>, <<7394, 7400>>, <<7405, 7405>>, <<7412, 7412>>,
      <<7416, 7417>>, <<7468, 7530>>, <<7544, 7544>>, <<7579, 7679>>,
      <<8125, 8125>>, <<8127, 8129>>, <<8141, 8143>>, <<8157, 8159>>,
      <<8173, 8175>>, <<8189, 8190>>, <<8203, 8207>>, <<8216, 8217>>,
      <<8228, 8228>>, <<8231, 8231>>, <<8234, 8238>>, <<8288, 8292>>,
      <<8294, 8303>>, <<8305, 8305>>, <<8319, 8319>>, <<8336, 8348>>,
      <<8400, 8432>>, <<11388, 11389>>, <<11503, 11505>>, <<11631, 11631>>,
      <<11647, 11647>>, <<11744, 11775>>, <<11823, 11823>>, <<12293, 12293>>,
      <<12330, 12333>>, <<12337, 12341>>, <<12347, 12347>>, <<12441, 12446>>,
      <<12540, 12542>>, <<40981, 40981>>, <<42232, 42237>>, <<42508, 42508>>,
      <<42607, 42610>>, <<42612, 42621>>, <<42623, 42623>>, <<42652, 42655>>,
      <<42736, 42737>>, <<42752, 42785>>, <<42864, 42864>>, <<42888, 42890>>,
      <<42994, 42996>>, <<43000, 43001>>, <<43010, 43010>>, <<43014, 43014>>,
      <<43019, 43019>>, <<43045, 43046>>, <<43052, 43052>>, <<43204, 43205>>,
      <<43232, 43249>>, <<43263, 43263>>, <<43302, 43309>>, <<43335, 43345>>,
      <<43392, 43394>>, <<43443, 43443>>, <<43446, 43449>>, <<43452, 43453>>,
      <<43471, 43471>>, <<43493, 43494>>, <<43561, 43566>>, <<43569, 43570>>,
      <<43573, 43574>>, <<43587, 43587>>, <<43596, 43596>>, <<43632, 43632>>,
      <<43644, 43644>>, <<43696, 43696>>, <<43698, 43700>>, <<43703, 43704>>,
      <<43710, 43711>>, <<43713, 43713>>, <<43741, 43741>>, <<43756, 43757>>,
      <<43763, 43764>>, <<43766, 43766>>, <<43867, 43871>>, <<43881, 43883>>,
      <<44005, 44005>>, <<44008, 44008>>, <<44013, 44013>>, <<64286, 64286>>,
      <<64434, 64450>>, <<65024, 65039>>, <<65043, 65043>>, <<65056, 65071>>,
      <<65106, 65106>>, <<65109, 65109>>, <<65279, 65279>>, <<65287, 65287>>,
      <<65294, 65294>>, <<65306, 65306>>, <<65342, 65342>>, <<65344, 65344>>,
      <<65392, 65392>>, <<65438, 65439>>, <<65507, 65507>>, <<65529, 65531>>,
      <<66045, 66045>>, <<66272, 66272>>, <<66422, 66426>>, <<67456, 67461>>,
      <<67463, 67504>>, <<67506, 67514>>, <<68097, 68099>>, <<68101, 68102>>,
      <<68108, 68111>>, <<68152, 68154>>, <<68159, 68159>>, <<68325, 68326>>,
      <<68900, 68903>>, <<69291, 69292>>, <<69446, 69456>>, <<69506, 69509>>,
      <<69633, 69633>>, <<69688, 69702>>, <<69744, 69744>>, <<69747, 69748>>,
      <<69759, 69761>>, <<69811, 69814>>, <<69817, 69818>>, <<69821, 69821>>,
      <<69826, 69826>>, <<69837, 69837>>, <<69888, 69890>>, <<69927, 69931>>,
      <<69933, 69940>>, <<70003, 70003>>, <<70016, 70017>>, <<70070, 70078>>,
      <<70089, 70092>>, <<70095, 70095>>, <<70191, 70193>>, <<70196, 70196>>,
      <<70198, 70199>>, <<70206, 70206>>, <<70367, 70367>>, <<70371, 70378>>,
      <<70400, 70401>>, <<70459, 70460>>, <<70464, 70464>>, <<70502, 70508>>,
      <<70512, 70516>>, <<70712, 70719>>, <<70722, 70724>>, <<70726, 70726>>,
      <<70750, 70750>>, <<70835, 70840>>, <<70842, 70842>>, <<70847, 70848>>,
      <<70850, 70851>>, <<71090, 71093>>, <<71100, 71101>>, <<71103, 71104>>,
      <<71132, 71133>>, <<71219, 71226>>, <<71229, 71229>>, <<71231, 71232>>,
      <<71339, 71339>>, <<71341, 71341>>, <<71344, 71349>>, <<71351, 71351>>,
      <<71453, 71455>>, <<71458, 71461>>, <<71463, 71467>>, <<71727, 71735>>,
      <<71737, 71738>>, <<71995, 71996>>, <<71998, 71998>>, <<72003, 72003>>,
      <<72148, 72151>>, <<72154, 72155>>, <<72160, 72160>>, <<72193, 72202>>,
      <<72243, 72248>>, <<72251, 72254>>, <<72263, 72263>>, <<72273, 72278>>,
      <<72281, 72283>>, <<72330, 72342>>, <<72344, 72345>>, <<72752, 72758>>,
      <<72760, 72765>>, <<72767, 72767>>, <<72850, 72871>>, <<72874, 72880>>,
      <<72882, 72883>>, <<72885, 72886>>, <<73009, 73014>>, <<73018, 73018>>,
      <<73020, 73021>>, <<73023, 73029>>, <<73031, 73031>>, <<73104, 73105>>,
      <<73109, 73109>>, <<73111, 73111>>, <<73459, 73460>>, <<78896, 78904>>,
      <<92912, 92916>>, <<92976, 92982>>, <<92992, 92995>>, <<94031, 94031>>,
      <<94095, 94111>>, <<94176, 94177>>, <<94179, 94180>>,
      <<110576, 110579>>, <<110581, 110587>>, <<110589, 110590>>,
      <<113821, 113822>>, <<113824, 113827>>, <<118528, 118573>>,
      <<118576, 118598>>, <<119143, 119145>>, <<119155, 119170>>,
      <<119173, 119179>>, <<119210, 119213>>, <<119362, 119364>>,
      <<121344, 121398>>, <<121403, 121452>>, <<121461, 121461>>,
      <<121476, 121476>>, <<121499, 121503>>, <<121505, 121519>>,
      <<122880, 122886>>, <<122888, 122904>>, <<122907, 122913>>,
      <<122915, 122916>>, <<122918, 122922>>, <<123184, 123197>>,
      <<123566, 123566>>, <<123628, 123631>>, <<125136, 125142>>,
      <<125252, 125259>>, <<127995, 127999>>, <<917505, 917505>>,
      <<917536, 917631>>, <<917760, 917999>> }

\* The cased code points that are not case-ignorable, <<lo, hi>>.
CasedRuns ==
    { <<65, 90>>, <<97, 122>>, <<170, 170>>, <<181, 181>>, <<186, 186>>,
      <<192, 214>>, <<216, 246>>, <<248, 442>>, <<444, 447>>, <<452, 659>>,
      <<661, 687>>, <<880, 883>>, <<886, 887>>, <<891, 893>>, <<895, 895>>,
      <<902, 902>>, <<904, 906>>, <<908, 908>>, <<910, 929>>, <<931, 1013>>,
      <<1015, 1153>>, <<1162, 1327>>, <<1329, 1366>>, <<1376, 1416>>,
      <<4256, 4293>>, <<4295, 4295>>, <<4301, 4301>>, <<4304, 4346>>,
      <<4349, 4351>>, <<5024, 5109>>, <<5112, 5117>>, <<7296, 7304>>,
      <<7312, 7354>>, <<7357, 7359>>, <<7424, 7467>>, <<7531, 7543>>,
      <<7545, 7578>>, <<7680, 7957>>, <<7960, 7965>>, <<7968, 8005>>,
      <<8008, 8013>>, <<8016, 8023>>, <<8025, 8025>>, <<8027, 8027>>,
      <<8029, 8029>>, <<8031, 8061>>, <<8064, 8116>>, <<8118, 8124>>,
      <<8126, 8126>>, <<8130, 8132>>, <<8134, 8140>>, <<8144, 8147>>,
      <<8150, 8155>>, <<8160, 8172>>, <<8178, 8180>>, <<8182, 8188>>,
      <<8450, 8450>>, <<8455, 8455>>, <<8458, 8467>>, <<8469, 8469>>,
      <<8473, 8477>>, <<8484, 8484>>, <<8486, 8486>>, <<8488, 8488>>,
      <<8490, 8493>>, <<8495, 8500>>, <<8505, 8505>>, <<8508, 8511>>,
      <<8517, 8521>>, <<8526, 8526>>, <<8544, 8575>>, <<8579, 8580>>,
      <<9398, 9449>>, <<11264, 11387>>, <<11390, 11492>>, <<11499, 11502>>,
      <<11506, 11507>>, <<11520, 11557>>, <<11559, 11559>>, <<11565, 11565>>,
      <<42560, 42605>>, <<42624, 42651>>, <<42786, 42863>>, <<42865, 42887>>,
      <<42891, 42894>>, <<42896, 42954>>, <<42960, 42961>>, <<42963, 42963>>,
      <<42965, 42969>>, <<42997, 42998>>, <<43002, 43002>>, <<43824, 43866>>,
      <<43872, 43880>>, <<43888, 43967>>, <<64256, 64262>>, <<64275, 64279>>,
      <<65313, 65338>>, <<65345, 65370>>, <<66560, 66639>>, <<66736, 66771>>,
      <<66776, 66811>>, <<66928, 66938>>, <<66940, 66954>>, <<66956, 66962>>,
      <<66964, 66965>>, <<66967, 66977>>, <<66979, 66993>>, <<66995, 67001>>,
      <<67003, 67004>>, <<68736, 68786>>, <<68800, 68850>>, <<71840, 71903>>,
      <<93760, 93823>>, <<119808, 119892>>, <<119894, 119964>>,
      <<119966, 119967>>, <<119970, 119970>>, <<119973, 119974>>,
      <<119977, 119980>>, <<119982, 119993>>, <<119995, 119995>>,
      <<119997, 120003>>, <<120005, 120069>>, <<120071, 120074>>,
      <<120077, 120084>>, <<120086, 120092>>, <<120094, 120121>>,
      <<120123, 120126>>, <<120128, 120132>>, <<120134, 120134>>,
      <<120138, 120144>>, <<120146, 120485>>, <<120488, 120512>>,
      <<120514, 120538>>, <<120540, 120570>>, <<120572, 120596>>,
      <<120598, 120628>>, <<120630, 120654>>, <<120656, 120686>>,
      <<120688, 120712>>, <<120714, 120744>>, <<120746, 120770>>,
      <<120772, 120779>>, <<122624, 122633>>, <<122635, 122654>>,
      <<125184, 125251>>, <<127280, 127305>>, <<127312, 127337>>,
      <<127344, 127369>> }

CaseIgnorable(c) == \E r \in CaseIgnorableRuns : r[1] <= c /\ c <= r[2]

Cased(c) == \E r \in CasedRuns : r[1] <= c /\ c <= r[2]

\* str.lower() of one code point that has a single-code-point lower case
LowerChar(c) ==
    IF c < 128 THEN (IF c \in 65..90 THEN c + 32 ELSE c)
    ELSE LET hit == { r \in LowerRuns :
                        r[1] <= c /\ c <= r[2] /\ (c - r[1]) % r[3] = 0 }
         IN  IF hit = {} THEN c ELSE c + (CHOOSE r \in hit : TRUE)[4]

\* whether the capital sigma at s[i] ends a word: the nearest code point
\* before it that is not case-ignorable is cased, and the nearest one after
\* it, if any, is not
FinalSigma(s, i) ==
    LET before == { j \in 1..(i - 1) : ~CaseIgnorable(s[j]) }
        after == { j \in (i + 1)..Len(s) : ~CaseIgnorable(s[j]) }
    IN  /\ before # {}
        /\ Cased(s[CHOOSE j \in before : \A k \in before : k <= j])
        /\ after # {} => ~Cased(s[CHOOSE j \in after : \A k \in after : j <= k])

RECURSIVE LowerFrom(_, _)
LowerFrom(s, i) ==
    IF i > Len(s) THEN <<>>
    ELSE (IF s[i] = 304 THEN <<105, 775>>
          ELSE IF s[i] = 931 THEN <<IF FinalSigma(s, i) THEN 962 ELSE 963>>
          ELSE <<LowerChar(s[i])>>) \o LowerFrom(s, i + 1)

\* str.lower(): the full Unicode lower case, one code point at a time; capital
\* I with dot above gives two code points, capital sigma depends on its place
Lower(s) == LowerFrom(s, 1)

\* Python's str < str: code point by code point, a proper prefix is smaller.
RECURSIVE LexLess(_, _)
LexLess(a, b) ==
    IF b = <<>> THEN FALSE
    ELSE IF a = <<>> THEN TRUE
    ELSE IF Head(a) < Head(b) THEN TRUE
    ELSE IF Head(a) > Head(b) THEN FALSE
    ELSE LexLess(Tail(a), Tail(b))

RECURSIVE Digits(_, _)
\* n written in decimal, zero-padded to width
Digits(n, width) ==
    IF width = 0 THEN <<>>
    ELSE Digits(n \div 10, width - 1) \o <<48 + (n % 10)>>

RECURSIVE Str(_)
\* str() of a storage identifier
Str(n) == IF n < 10 THEN <<48 + n>> ELSE Str(n \div 10) \o <<48 + (n % 10)>>

\* A datetime: day counts the days from 1970-01-01, sec the seconds of the
\* day, us the microseconds of the second; tz is "utc" for an aware UTC
\* datetime (datetime.now(timezone.utc)) and "naive" for one without tzinfo.
Datetime(day, sec, us, tz) == [day |-> day, sec |-> sec, us |-> us, tz |-> tz]

\* the proleptic Gregorian <<year, month, day>> of a day count
CivilFromDays(n) ==
    LET z == n + 719468
        era == z \div 146097
        doe == z - era * 146097
        yoe == (doe - doe \div 1460 + doe \div 36524 - doe \div 146096) \div 365
        doy == doe - (365 * yoe + yoe \div 4 - yoe \div 100)
        mp == (5 * doy + 2) \div 153
        d == doy - (153 * mp + 2) \div 5 + 1
        m == IF mp < 10 THEN mp + 3 ELSE mp - 9
    IN  <<yoe + era * 400 + (IF m <= 2 THEN 1 ELSE 0), m, d>>

\* datetime.isoformat(): YYYY-MM-DDTHH:MM:SS, the fraction .ffffff only when
\* it is not zero, and the offset +00:00 only for an aware datetime.
isoformat(dt) ==
    LET ymd == CivilFromDays(dt.day) IN
    Digits(ymd[1], 4) \o <<45>> \o Digits(ymd[2], 2) \o <<45>> \o Digits(ymd[3], 2)
    \o <<84>> \o Digits(dt.sec \div 3600, 2)
    \o <<58>> \o Digits((dt.sec \div 60) % 60, 2)
    \o <<58>> \o Digits(dt.sec % 60, 2)
    \o (IF dt.us = 0 THEN <<>> ELSE <<46>> \o Digits(dt.us, 6))
    \o (IF dt.tz = "utc" THEN <<43, 48, 48, 58, 48, 48>> ELSE <<>>)

Reverse(s) == [i \in 1..Len(s) |-> s[Len(s) + 1 - i]]

RECURSIVE InsertByKey(_, _)
\* p goes after every element whose key is not greater than its own
InsertByKey(p, s) ==
    IF s = <<>> THEN <<p>>
    ELSE IF LexLess(p.key, Head(s).key) THEN <<p>> \o s
    ELSE <<Head(s)>> \o InsertByKey(p, Tail(s))

RECURSIVE StableSort(_)
\* stable ascending sort of a sequence of [key, val]
StableSort(s) ==
    IF s = <<>> THEN <<>>
    ELSE InsertByKey(s[Len(s)], StableSort(SubSeq(s, 1, Len(s) - 1)))

\* list.sort(key=..., reverse=...): stable; reverse=True reverses the list,
\* sorts it ascending and reverses the result, which keeps equal keys in
\* their original order.
PySort(s, reverse) ==
    IF reverse THEN Reverse(StableSort(Reverse(s))) ELSE StableSort(s)

Vals(s) == [i \in 1..Len(s) |-> s[i].val]

----------------------------------------------------------------------------
\* Inputs

AttendanceNames == { <<>>, <<9, 32>>, <<32, 65, 108, 32>> }

UmkmNames == { <<9, 32>>, <<90, 101, 116, 97>>, <<32, 97, 108, 112, 104, 97, 32>> }
UmkmContacts == { <<>>, <<32, 99>> }
UmkmDescriptions == { <<32>>, <<100, 32>> }
UmkmSocials == { None, Some(<<>>), Some(<<32>>), Some(<<32, 115, 32>>) }

\* what datetime.now(timezone.utc) may return: the wall clock, which a later
\* call may find earlier, equal or later
ClockReadings ==
    { Datetime(19723, 0, 0, "utc"), Datetime(19723, 0, 250000, "utc"),
      Datetime(19723, 60, 0, "utc") }

\* Documents written to the collections by other systems before start-up.
LegacyAttendance ==
    << [_id |-> 101, name |-> Some(<<76>>), timestamp |-> Some(<<>>),
        created_at |-> Some(Datetime(19723, 0, 250000, "naive"))],
       [_id |-> 102, name |-> None, timestamp |-> None, created_at |-> None] >>

LegacyUmkm ==
    << [_id |-> 103, name |-> None, contact |-> Some(<<99>>),
        description |-> Some(<<100>>), social |-> None] >>

----------------------------------------------------------------------------
\* HTTP layer

NoReq == [op |-> "none", name |-> <<>>, contact |-> <<>>,
          description |-> <<>>, social |-> None]

Request(op) == [NoReq EXCEPT !.op = op]

\* a handler that returns body
Ok(body) == [status |-> 200, detail |-> "", items |-> body]

\* raise HTTPException(status_code, detail)
HTTPException(code, detail) == [status |-> code, detail |-> detail, items |-> <<>>]

\* any other exception leaving a handler
ServerError == [status |-> 500, detail |-> "Internal Server Error", items |-> <<>>]

----------------------------------------------------------------------------
\* Storage adapter

\* whether create_document and get_documents go through: they raise when
\* db is None and when the underlying call fails
StorageOk == db = "up"

\* insert_one: the document with its generated identifier, appended
Inserted(coll, data) == Append(coll, [data EXCEPT !._id = nextId])

\* get_documents(collection, {}): every document, in natural order
get_documents(coll) == coll

\* db.list_collection_names()
list_collection_names ==
    (IF attendance # <<>> THEN <<"attendance">> ELSE <<>>)
    \o (IF umkm # <<>> THEN <<"umkm">> ELSE <<>>)

----------------------------------------------------------------------------
Init ==
    /\ db \in {"null", "down", "up"}
    /\ \E legacy \in BOOLEAN :
          /\ attendance = IF legacy THEN LegacyAttendance ELSE <<>>
          /\ umkm = IF legacy THEN LegacyUmkm ELSE <<>>
    /\ nextId = 1
    /\ clock = Datetime(19723, 0, 0, "utc")
    /\ req = NoReq
    /\ resp = Ok(<<>>)
    /\ responses = <<>>

\* GET /
read_root ==
    /\ req' = Request("read_root")
    /\ resp' = Ok(<<[message |-> "UMKM & Attendance API is running"]>>)
    /\ UNCHANGED <<db, attendance, umkm, nextId, clock, responses>>

----------------------------------------------------------------------------
\* Attendance

\* mutant: the name is tested without strip()
NameMissingUnstripped(name) == name = <<>>

\* the validation of POST /api/attendance: not payload.name.strip()
NameMissing(name) == Strip(name) = <<>>

\* mutant: the record is built from the raw payload name
AttendanceDataRaw(name, timestamp) == [name |-> name, timestamp |-> timestamp]

\* Attendance(name=payload.name.strip(), timestamp=timestamp)
AttendanceData(name, timestamp) == [name |-> Strip(name), timestamp |-> timestamp]

\* the document create_document stores for an Attendance record
AttendanceDoc(data) ==
    [_id |-> 0, name |-> Some(data.name), timestamp |-> Some(data.timestamp),
     created_at |-> None]

\* {"id": inserted_id, "name": data.name, "timestamp": data.timestamp}
MarkAttendanceBody(id, data) ==
    [id |-> id, name |-> Some(data.name), timestamp |-> Some(data.timestamp)]

\* POST /api/attendance.  The server clock is read once per valid request,
\* before the insert, so also when the insert then fails.  The storage
\* generates identifiers up to MaxDocs.
mark_attendance ==
    \E name \in AttendanceNames, now \in ClockReadings :
        /\ req' = [Request("mark_attendance") EXCEPT !.name = name]
        /\ IF NameMissing(name)
           THEN /\ resp' = HTTPException(400, "Name is required")
                /\ UNCHANGED <<attendance, umkm, nextId, clock, responses>>
           ELSE /\ clock' = now
                /\ LET data == AttendanceData(name, isoformat(now)) IN
                   IF StorageOk
                   THEN /\ nextId <= MaxDocs
                        /\ attendance' = Inserted(attendance, AttendanceDoc(data))
                        /\ nextId' = nextId + 1
                        /\ resp' = Ok(<<MarkAttendanceBody(Str(nextId), data)>>)
                        /\ responses' = Append(responses,
                               [op |-> "mark_attendance",
                                body |-> MarkAttendanceBody(Str(nextId), data)])
                        /\ UNCHANGED umkm
                   ELSE /\ resp' = ServerError
                        /\ UNCHANGED <<attendance, umkm, nextId, responses>>
        /\ UNCHANGED db

\* d.get("timestamp") or (d.get("created_at") and d.get("created_at").isoformat())
TimestampOrCreatedAt(d) ==
    IF Truthy(d.timestamp) THEN d.timestamp
    ELSE IF d.created_at = None THEN None
    ELSE Some(isoformat(d.created_at[1]))

\* one entry of the attendance listing
AttendanceEntry(d) ==
    [id |-> Str(d._id), name |-> d.name, timestamp |-> TimestampOrCreatedAt(d)]

\* key=lambda x: x.get("timestamp") or ""
AttendanceKey(x) == IF Truthy(x.timestamp) THEN x.timestamp[1] ELSE <<>>

\* mutant: the sort without reverse=True
ListAttendanceBodyAscending(docs) ==
    LET normalized == [i \in 1..Len(docs) |-> AttendanceEntry(docs[i])] IN
    Vals(PySort([i \in 1..Len(docs) |->
                    [key |-> AttendanceKey(normalized[i]), val |-> normalized[i]]],
                FALSE))

\* the body of list_attendance: normalise, then sort by timestamp descending
ListAttendanceBody(docs) ==
    LET normalized == [i \in 1..Len(docs) |-> AttendanceEntry(docs[i])] IN
    Vals(PySort([i \in 1..Len(docs) |->
                    [key |-> AttendanceKey(normalized[i]), val |-> normalized[i]]],
                TRUE))

\* GET /api/attendance
list_attendance ==
        /\ req' = Request("list_attendance")
        /\ resp' = IF StorageOk
                   THEN Ok(ListAttendanceBody(get_documents(attendance)))
                   ELSE ServerError
        /\ UNCHANGED <<db, attendance, umkm, nextId, clock, responses>>

----------------------------------------------------------------------------
\* UMKM

\* mutant: the description is not tested
RequiredMissingNoDescription(name, contact, description) ==
    Strip(name) = <<>> \/ Strip(contact) = <<>>

\* the validation of POST /api/umkm
RequiredMissing(name, contact, description) ==
    Strip(name) = <<>> \/ Strip(contact) = <<>> \/ Strip(description) = <<>>

\* payload.social.strip() if payload.social else None
SocialValue(social) == IF Truthy(social) THEN Some(Strip(social[1])) ELSE None

\* Umkm(name=..., contact=..., description=..., social=...)
UmkmData(name, contact, description, social) ==
    [name |-> Strip(name), contact |-> Strip(contact),
     description |-> Strip(description), social |-> SocialValue(social)]

\* the document create_document stores for an Umkm record
UmkmDoc(data) ==
    [_id |-> 0, name |-> Some(data.name), contact |-> Some(data.contact),
     description |-> Some(data.description), social |-> data.social]

\* {"id": inserted_id, **data.model_dump()}
RegisterUmkmBody(id, data) ==
    [id |-> id, name |-> Some(data.name), contact |-> Some(data.contact),
     description |-> Some(data.description), social |-> data.social]

\* POST /api/umkm
register_umkm ==
    \E name \in UmkmNames, contact \in UmkmContacts,
       description \in UmkmDescriptions, social \in UmkmSocials :
        /\ req' = [op |-> "register_umkm", name |-> name, contact |-> contact,
                   description |-> description, social |-> social]
        /\ IF RequiredMissing(name, contact, description)
           THEN /\ resp' = HTTPException(400, "Name, contact, and description are required")
                /\ UNCHANGED <<attendance, umkm, nextId, responses>>
           ELSE LET data == UmkmData(name, contact, description, social) IN
                IF StorageOk
                THEN /\ nextId <= MaxDocs
                     /\ umkm' = Inserted(umkm, UmkmDoc(data))
                     /\ nextId' = nextId + 1
                     /\ resp' = Ok(<<RegisterUmkmBody(Str(nextId), data)>>)
                     /\ responses' = Append(responses,
                            [op |-> "register_umkm",
                             body |-> RegisterUmkmBody(Str(nextId), data)])
                     /\ UNCHANGED attendance
                ELSE /\ resp' = ServerError
                     /\ UNCHANGED <<attendance, umkm, nextId, responses>>
        /\ UNCHANGED <<db, clock>>

\* mutant: contact and description swapped in the projection
UmkmEntrySwapped(d) ==
    [id |-> Str(d._id), name |-> d.name, contact |-> d.description,
     description |-> d.contact, social |-> d.social]

\* one entry of the UMKM listing
UmkmEntry(d) ==
    [id |-> Str(d._id), name |-> d.name, contact |-> d.contact,
     description |-> d.description, social |-> d.social]

\* mutant: the key without lower()
UmkmKeyCaseSensitive(x) == IF Truthy(x.name) THEN x.name[1] ELSE <<>>

\* key=lambda x: (x.get("name") or "").lower()
UmkmKey(x) == Lower(IF Truthy(x.name) THEN x.name[1] ELSE <<>>)

\* the body of list_umkm: project, then sort by name
ListUmkmBody(docs) ==
    LET out == [i \in 1..Len(docs) |-> UmkmEntry(docs[i])] IN
    Vals(PySort([i \in 1..Len(docs) |-> [key |-> UmkmKey(out[i]), val |-> out[i]]],
                FALSE))

\* GET /api/umkm
list_umkm ==
        /\ req' = Request("list_umkm")
        /\ resp' = IF StorageOk
                   THEN Ok(ListUmkmBody(get_documents(umkm)))
                   ELSE ServerError
        /\ UNCHANGED <<db, attendance, umkm, nextId, clock, responses>>

----------------------------------------------------------------------------
\* Diagnostics

\* the length of str(e)[:50]
Truncated(len) == IF len < 50 THEN len ELSE 50

\* collections[:10]
FirstTen(s) == SubSeq(s, 1, IF Len(s) < 10 THEN Len(s) ELSE 10)

\* the inner handler: except Exception
InnerCatches(exc) == exc \in {"ImportError", "Exception"}

\* mutant: only except ImportError
OuterCatchesImportError(exc) == exc = "ImportError"

\* the outer handlers: except ImportError, except Exception
OuterCatches(exc) == exc \in {"ImportError", "Exception"}

\* The try block of test_database.  importOutcome is what reading the handle
\* from the database module does, errLen the length of the message of the
\* exception raised, if one is.  raised is the exception that leaves the
\* block, "" for none.
TestDatabaseTry(importOutcome, errLen) ==
    LET start == [raised |-> "", database |-> "Not Available", errorChars |-> 0,
                  connection_status |-> "Not Connected", collections |-> <<>>]
    IN
    IF importOutcome # "ok" THEN
        IF ~OuterCatches(importOutcome) THEN [start EXCEPT !.raised = importOutcome]
        ELSE IF importOutcome = "ImportError"
        THEN [start EXCEPT !.database = "Database module not found"]
        ELSE [start EXCEPT !.database = "Error", !.errorChars = Truncated(errLen)]
    ELSE IF db = "null" THEN
        [start EXCEPT !.database = "Available but not initialized"]
    ELSE IF db = "up" THEN
        [start EXCEPT !.database = "Connected & Working",
                      !.connection_status = "Connected",
                      !.collections = FirstTen(list_collection_names)]
    ELSE IF InnerCatches("Exception") THEN
        [start EXCEPT !.database = "Connected but Error",
                      !.errorChars = Truncated(errLen),
                      !.connection_status = "Connected"]
    ELSE IF OuterCatches("Exception") THEN
        [start EXCEPT !.database = "Error", !.errorChars = Truncated(errLen),
                      !.connection_status = "Connected"]
    ELSE [start EXCEPT !.raised = "Exception"]

\* GET /test
test_database ==
    \E importOutcome \in {"ok", "ImportError", "Exception"},
       errLen \in {20, 80}, urlSet \in BOOLEAN, nameSet \in BOOLEAN :
        /\ req' = Request("test_database")
        /\ LET r == TestDatabaseTry(importOutcome, errLen) IN
           resp' = IF r.raised # "" THEN ServerError
                   ELSE Ok(<<[backend |-> "Running",
                              database |-> r.database,
                              errorChars |-> r.errorChars,
                              database_url |-> IF urlSet THEN "Set" ELSE "Not Set",
                              database_name |-> IF nameSet THEN "Set" ELSE "Not Set",
                              connection_status |-> r.connection_status,
                              collections |-> r.collections]>>)
        /\ UNCHANGED <<db, attendance, umkm, nextId, clock, responses>>

----------------------------------------------------------------------------
Next ==
    \/ read_root
    \/ mark_attendance
    \/ list_attendance
    \/ register_umkm
    \/ list_umkm
    \/ test_database

Spec == Init /\ [][Next]_vars

----------------------------------------------------------------------------
\* Vocabulary of the properties

\* empty or whitespace only
IsBlank(s) == \A i \in 1..Len(s) : IsSpace(s[i])

\* t is s without its leading and trailing whitespace
IsTrimOf(t, s) ==
    \E a \in 0..Len(s) :
        /\ a + Len(t) <= Len(s)
        /\ SubSeq(s, a + 1, a + Len(t)) = t
        /\ \A i \in 1..a : IsSpace(s[i])
        /\ \A i \in (a + Len(t) + 1)..Len(s) : IsSpace(s[i])
        /\ t # <<>> => ~IsSpace(t[1]) /\ ~IsSpace(t[Len(t)])

\* a required field as stored: present, not blank, nothing to trim
WellFormed(field) == field # None /\ ~IsBlank(field[1]) /\ IsTrimOf(field[1], field[1])

\* the documents of a collection written by this API
Persisted(coll, legacy) ==
    { coll[i] : i \in { j \in 1..Len(coll) : \A k \in 1..Len(legacy) : coll[j] # legacy[k] } }

Answered(op) == req.op = op /\ resp.status = 200

\* where the entry with this id stands in a listing (0: nowhere)
Pos(items, id) ==
    IF \E i \in 1..Len(items) : items[i].id = id
    THEN CHOOSE i \in 1..Len(items) : items[i].id = id
    ELSE 0

\* a listing holds exactly the expected entries, one per document
Projects(items, expected) ==
    /\ Len(items) = Len(expected)
    /\ \A i \in 1..Len(expected) :
          Cardinality({ j \in 1..Len(items) : items[j] = expected[i] }) = 1

\* the sort key of a listed value: the string, "" when there is none
KeyOrEmpty(o) == IF o = None THEN <<>> ELSE o[1]

\* the successful creations of one kind, in the order they were answered
Created(op) == { k \in 1..Len(responses) : responses[k].op = op }

----------------------------------------------------------------------------
\* C1: a create-attendance request whose name is empty or whitespace-only is
\* answered 400 "Name is required", and the step persists nothing: both
\* collections and the identifier counter are as before.
C1_BlankNameRejected ==
    [][ (req'.op = "mark_attendance" /\ IsBlank(req'.name)) =>
            /\ resp'.status = 400
            /\ resp'.detail = "Name is required"
            /\ attendance' = attendance
            /\ umkm' = umkm
            /\ nextId' = nextId ]_vars

C1_Witness ==
    /\ req.op = "mark_attendance" /\ IsBlank(req.name) /\ req.name # <<>>
    /\ resp.status = 400
    /\ db = "up"
    /\ Created("mark_attendance") # {}

\* C2: a register-UMKM request in which name, contact or description is empty
\* or whitespace-only is answered 400 "Name, contact, and description are
\* required", whatever the other fields are, and the step persists nothing.
C2_BlankRequiredRejected ==
    [][ (/\ req'.op = "register_umkm"
         /\ (IsBlank(req'.name) \/ IsBlank(req'.contact) \/ IsBlank(req'.description))) =>
            /\ resp'.status = 400
            /\ resp'.detail = "Name, contact, and description are required"
            /\ attendance' = attendance
            /\ umkm' = umkm
            /\ nextId' = nextId ]_vars

C2_Witness ==
    /\ req.op = "register_umkm"
    /\ ~IsBlank(req.name) /\ ~IsBlank(req.contact) /\ IsBlank(req.description)
    /\ req.social # None
    /\ resp.status = 400
    /\ db = "up"
    /\ Created("register_umkm") # {}

\* C3: every document persisted by this API has its required fields present,
\* not blank and trimmed, and the document a successful create has just
\* stored holds the trimmed values of that request.
C3_PersistedFieldsTrimmed ==
    /\ \A d \in Persisted(attendance, LegacyAttendance) : WellFormed(d.name)
    /\ \A d \in Persisted(umkm, LegacyUmkm) :
          WellFormed(d.name) /\ WellFormed(d.contact) /\ WellFormed(d.description)
    /\ Answered("mark_attendance") =>
          LET d == attendance[Len(attendance)] IN
          d.name # None /\ IsTrimOf(d.name[1], req.name)
    /\ Answered("register_umkm") =>
          LET d == umkm[Len(umkm)] IN
          /\ d.name # None /\ IsTrimOf(d.name[1], req.name)
          /\ d.contact # None /\ IsTrimOf(d.contact[1], req.contact)
          /\ d.description # None /\ IsTrimOf(d.description[1], req.description)

C3_Witness ==
    /\ Answered("register_umkm")
    /\ req.name # umkm[Len(umkm)].name[1]
    /\ Persisted(attendance, LegacyAttendance) # {}
    /\ Persisted(umkm, LegacyUmkm) # {}

\* The timestamp of a listed attendance entry as C4 words it: the stored
\* timestamp or, if that is absent, the creation time as ISO-8601.
C4_TimestampIfPresent(d) ==
    IF d.timestamp # None THEN d.timestamp
    ELSE IF d.created_at # None THEN Some(isoformat(d.created_at[1]))
    ELSE None

C4_EntryAsClaimed(d) ==
    [id |-> Str(d._id), name |-> d.name, timestamp |-> C4_TimestampIfPresent(d)]

\* The same with an empty stored timestamp counted as absent.
C4_TimestampIfNotEmpty(d) ==
    IF d.timestamp # None /\ d.timestamp[1] # <<>> THEN d.timestamp
    ELSE IF d.created_at # None THEN Some(isoformat(d.created_at[1]))
    ELSE None

C4_EntryAmended(d) ==
    [id |-> Str(d._id), name |-> d.name, timestamp |-> C4_TimestampIfNotEmpty(d)]

C4_Descending(items) ==
    /\ \A i, j \in 1..Len(items) :
          i < j => ~LexLess(KeyOrEmpty(items[i].timestamp), KeyOrEmpty(items[j].timestamp))
    /\ \A i, j \in 1..Len(items) :
          (items[i].timestamp = None /\ items[j].timestamp # None) => j < i

\* C4 as stated: list-attendance returns one entry {id, name, timestamp} per
\* document, the timestamp being the stored one or, if absent, the creation
\* time as ISO-8601, in descending lexicographic order of timestamp, the
\* entries without any timestamp last.
C4_Original ==
    Answered("list_attendance") =>
        /\ Projects(resp.items,
                    [i \in 1..Len(attendance) |-> C4_EntryAsClaimed(attendance[i])])
        /\ C4_Descending(resp.items)

\* C4 amended: the same, the timestamp being the stored one when it is present
\* and not empty, else the creation time as ISO-8601 when there is one, else
\* null.
C4_ListAttendanceOrder ==
    Answered("list_attendance") =>
        /\ Projects(resp.items,
                    [i \in 1..Len(attendance) |-> C4_EntryAmended(attendance[i])])
        /\ C4_Descending(resp.items)

C4_Witness ==
    /\ Answered("list_attendance")
    /\ Len(resp.items) = 4
    /\ LexLess(KeyOrEmpty(resp.items[2].timestamp), KeyOrEmpty(resp.items[1].timestamp))
    /\ \E i \in 1..4 : resp.items[i].id = Str(101) /\ resp.items[i].timestamp # None
    /\ resp.items[4].timestamp = None

\* C5: of two successful create-attendance calls whose timestamps do not
\* decrease, the later one is listed before the earlier one by every later
\* list-attendance, also when both read the same clock value.
C5_LaterListedFirst ==
    Answered("list_attendance") =>
        \A i, j \in Created("mark_attendance") :
            (/\ i < j
             /\ ~LexLess(responses[j].body.timestamp[1], responses[i].body.timestamp[1]))
               => Pos(resp.items, responses[j].body.id)
                     < Pos(resp.items, responses[i].body.id)

\* C6: list-UMKM returns one entry {id, name, contact, description, social}
\* per document, ascending by lower-cased name, a missing name counting as
\* the empty string, whatever the order of registration.
C6_ListUmkmOrder ==
    Answered("list_umkm") =>
        /\ Projects(resp.items,
                    [i \in 1..Len(umkm) |->
                        [id |-> Str(umkm[i]._id), name |-> umkm[i].name,
                         contact |-> umkm[i].contact,
                         description |-> umkm[i].description,
                         social |-> umkm[i].social]])
        /\ \A i, j \in 1..Len(resp.items) :
              i < j => ~LexLess(Lower(KeyOrEmpty(resp.items[j].name)),
                                Lower(KeyOrEmpty(resp.items[i].name)))

\* "Zeta" registered, then "alpha": the listing has the entry without a name
\* first, then "alpha", then "Zeta".
C6_Witness ==
    /\ Answered("list_umkm")
    /\ Len(resp.items) = 3
    /\ Created("register_umkm") = {1, 2}
    /\ responses[1].body.name = Some(<<90, 101, 116, 97>>)
    /\ responses[2].body.name = Some(<<97, 108, 112, 104, 97>>)
    /\ resp.items[1].name = None
    /\ resp.items[2].id = responses[2].body.id
    /\ resp.items[3].id = responses[1].body.id

\* C7: a valid register-UMKM stores and returns the trimmed social whenever
\* the request carries a social string, the empty and the whitespace-only
\* string included, and null only when social is omitted or null.
C7_SocialTrimmedWhenPresent ==
    Answered("register_umkm") =>
        LET body == resp.items[1]
            doc == umkm[Len(umkm)]
        IN  /\ doc.social = body.social
            /\ IF req.social = None THEN body.social = None
               ELSE body.social # None /\ IsTrimOf(body.social[1], req.social[1])

\* C8: GET /test is answered 200 with one diagnostics object whatever the
\* state of the storage and whatever fails while it is examined.
C8_DiagnosticsNeverFails ==
    req.op = "test_database" =>
        /\ resp.status = 200
        /\ Len(resp.items) = 1
        /\ resp.items[1].backend = "Running"

C8_Witness ==
    /\ req.op = "test_database"
    /\ db = "down"
    /\ resp.status = 200
    /\ resp.items[1].database = "Connected but Error"
    /\ resp.items[1].errorChars = 50

\* C10: every listing answered after a successful create holds exactly one
\* entry with the identifier of that create response, equal to it field by
\* field, and holds exactly one entry per stored document.
C10_CreateListRoundTrip ==
    /\ Answered("list_attendance") =>
          /\ Len(resp.items) = Len(attendance)
          /\ { resp.items[i].id : i \in 1..Len(resp.items) }
                = { Str(attendance[i]._id) : i \in 1..Len(attendance) }
          /\ Cardinality({ resp.items[i].id : i \in 1..Len(resp.items) }) = Len(resp.items)
          /\ \A k \in Created("mark_attendance") :
                /\ Cardinality({ i \in 1..Len(resp.items) :
                                    resp.items[i].id = responses[k].body.id }) = 1
                /\ \A i \in 1..Len(resp.items) :
                      resp.items[i].id = responses[k].body.id
                         => resp.items[i] = responses[k].body
    /\ Answered("list_umkm") =>
          /\ Len(resp.items) = Len(umkm)
          /\ { resp.items[i].id : i \in 1..Len(resp.items) }
                = { Str(umkm[i]._id) : i \in 1..Len(umkm) }
          /\ Cardinality({ resp.items[i].id : i \in 1..Len(resp.items) }) = Len(resp.items)
          /\ \A k \in Created("register_umkm") :
                /\ Cardinality({ i \in 1..Len(resp.items) :
                                    resp.items[i].id = responses[k].body.id }) = 1
                /\ \A i \in 1..Len(resp.items) :
                      resp.items[i].id = responses[k].body.id
                         => resp.items[i] = responses[k].body

C10_Witness ==
    /\ Answered("list_umkm")
    /\ Created("register_umkm") # {}
    /\ Created("mark_attendance") # {}
    /\ Len(resp.items) = 2
====
